---- MODULE Spec2Model ----
(***************************************************************************)
(* Model of transformers_neuronx/sampling.py: the parameter validator, the *)
(* top-k / top-p filtering engine and the four generation loops            *)
(* (simple_sample, sample_tokens, sample_greedy, sample_llama).            *)
(*                                                                         *)
(* Conventions.                                                            *)
(*  - Tensors are functions over 0-based index ranges, as in the source:   *)
(*    a row of scores is [0..V-1 -> score], a batch is [0..B-1 -> row].    *)
(*    A token matrix is a sequence of columns, a column is [0..B-1 -> id]. *)
(*  - Scores are integers in units of ln 2, so exp(score) = 2^score and    *)
(*    every softmax / cumulative probability is an exact rational; the     *)
(*    rounding of floating point is outside the model.                     *)
(*  - A Python value is a record [ty, num, den]: its runtime type and its  *)
(*    value num/den.  isinstance() is decided from ty, as in Python, where *)
(*    a bool is an instance of int and an int is no instance of float.     *)
(*  - The order torch.topk / torch.sort give to equal scores is not        *)
(*    specified; it is fixed for one run by the variable tie.              *)
(***************************************************************************)
EXTENDS Integers, Sequences, FiniteSets, TLC

VARIABLES
    fn,                  \* the entry point that is called
    pc,                  \* "start", "loop" (at the head of the decode loop), "done", "error"
    err,                 \* the exception that ended the call, "none" otherwise
    tie,                 \* how topk / sort order equal scores: "low" or "high" index first
    input_ids,           \* the prompt, a sequence of L0 columns
    sequence_length,
    eos_token_id,
    top_k, top_p, temperature, min_tokens_to_keep,   \* Python values
    next_token_scores,   \* what the last forward call returned (scores, or tokens for sample_tokens)
    tokens,              \* the list of blocks [input_ids, column, column, ...]
    done_flags,
    inputs,              \* the column selected in the last iteration (raw draw)
    cur_len,
    calls,               \* the forward calls issued so far, in order
    result,              \* the returned matrix, <<>> before the return
    scores,              \* argument of a direct call of top_k_top_p_filtering
    out                  \* what that call returned

vars == <<fn, pc, err, tie, input_ids, sequence_length, eos_token_id, top_k, top_p,
          temperature, min_tokens_to_keep, next_token_scores, tokens, done_flags,
          inputs, cur_len, calls, result, scores, out>>

(***************************************************************************)
(* Bounds of the model.                                                    *)
(***************************************************************************)
VocabSize == 3
MaxBatch == 2
MaxPrompt == 2
MaxSeqLen == 4
MaxScore == 1

(***************************************************************************)
(* Program constants.                                                      *)
(***************************************************************************)
NegInf == -1
DefaultEos == 2
DefaultTopK == 50

Range0(n) == 0 .. (n - 1)
Min(a, b) == IF a <= b THEN a ELSE b
Max(a, b) == IF a >= b THEN a ELSE b

(***************************************************************************)
(* Python values.                                                          *)
(***************************************************************************)
PyNone == [ty |-> "none", num |-> 0, den |-> 1]
PyInt(n) == [ty |-> "int", num |-> n, den |-> 1]
PyFloat(n, d) == [ty |-> "float", num |-> n, den |-> d]
PyBool(b) == [ty |-> "bool", num |-> IF b THEN 1 ELSE 0, den |-> 1]
PyStr == [ty |-> "str", num |-> 0, den |-> 1]

IsNone(v) == v.ty = "none"
IsInstanceInt(v) == v.ty \in {"int", "bool"}
IsInstanceFloat(v) == v.ty = "float"

\* v > 0, 0.0 < v <= 1.0, v < 0 on a number num/den with den > 0
Positive(v) == v.num > 0
InUnitInterval(v) == v.num > 0 /\ v.num <= v.den
Negative(v) == v.num < 0

(***************************************************************************)
(* validate_top_k_top_p_min_tokens_to_keep: "ok", or the exception.        *)
(***************************************************************************)
\* the three conditions under which a ValueError is raised, lines 105, 108, 111
TopKCheck(k) == ~IsNone(k) /\ (~IsInstanceInt(k) \/ ~Positive(k))

\* variant of TopPCheck: any number in (0.0, 1.0] passes, an int included
TopPCheckAnyNumber(p) ==
    ~IsNone(p) /\ (~(IsInstanceFloat(p) \/ IsInstanceInt(p)) \/ ~InUnitInterval(p))
TopPCheck(p) == ~IsNone(p) /\ (~IsInstanceFloat(p) \/ ~InUnitInterval(p))

MinTokensCheck(m) == ~IsNone(m) /\ (~IsInstanceInt(m) \/ Negative(m))

validate_top_k_top_p_min_tokens_to_keep(k, p, m) ==
    IF TopKCheck(k) THEN "ValueError"
    ELSE IF TopPCheck(p) THEN "ValueError"
    ELSE IF MinTokensCheck(m) THEN "ValueError"
    ELSE "ok"

\* the check of sample_loop_llama on temperature, line 175
TemperatureCheck(t) == ~IsInstanceFloat(t) \/ ~Positive(t)

(***************************************************************************)
(* Tensor operations used by the filtering engine.                         *)
(***************************************************************************)
Width(m) == Cardinality(DOMAIN m[0])

\* a comes before b in a descending order of row; equal scores by the tie rule
Before(row, a, b, t) ==
    \/ row[a] > row[b]
    \/ row[a] = row[b] /\ (IF t = "low" THEN a < b ELSE a > b)

\* the permutation that sorts row descending: position j holds the index
\* that has exactly j indices before it
ArgSort(row, t) ==
    [j \in DOMAIN row |->
        CHOOSE a \in DOMAIN row :
            Cardinality({b \in DOMAIN row : Before(row, b, a, t)}) = j]

\* torch.sort(m, descending=True)
torch_sort(m, t) ==
    [values  |-> [i \in DOMAIN m |-> [j \in DOMAIN m[i] |-> m[i][ArgSort(m[i], t)[j]]]],
     indices |-> [i \in DOMAIN m |-> ArgSort(m[i], t)]]

\* torch.topk(m, k), k <= Width(m): the k largest of each row, descending
torch_topk(m, k, t) ==
    [values  |-> [i \in DOMAIN m |-> [j \in Range0(k) |-> m[i][ArgSort(m[i], t)[j]]]],
     indices |-> [i \in DOMAIN m |-> [j \in Range0(k) |-> ArgSort(m[i], t)[j]]]]

\* torch.index_select(m, dim=-1, index=idx): column j of the result is column idx[j] of m
index_select(m, idx) == [i \in DOMAIN m |-> [j \in DOMAIN idx |-> m[i][idx[j]]]]

\* exp(score): scores are in units of ln 2, exp(-inf) = 0
Exp(s) == IF s = NegInf THEN 0 ELSE 2 ^ s

RECURSIVE CumWeight(_, _)
CumWeight(row, j) == IF j < 0 THEN 0 ELSE Exp(row[j]) + CumWeight(row, j - 1)
TotalWeight(row) == CumWeight(row, Cardinality(DOMAIN row) - 1)

\* cumsum(softmax(row))[j] <= p, as an exact comparison of rationals; a row of
\* -inf only has softmax NaN, and NaN <= p is false
CumProbLe(row, j, p) ==
    /\ TotalWeight(row) > 0
    /\ CumWeight(row, j) * p.den <= p.num * TotalWeight(row)

SetMax(S) == CHOOSE x \in S : \A y \in S : y <= x

(***************************************************************************)
(* top_k_top_p_filtering(scores, top_k, top_p, min_tokens_to_keep).        *)
(* V is input_size, mtk the integer min_tokens_to_keep, k the integer      *)
(* top_k, p the float top_p, t the tie rule.  A result is a record         *)
(* [values, indices] of two matrices of the same shape.                    *)
(***************************************************************************)
\* variant of safe_size: the floor min_tokens_to_keep is not applied
safe_size_no_floor(size, mtk, V) == Min(size, V)
safe_size(size, mtk, V) == Min(Max(size, mtk), V)

input_value_and_indices(sc) ==
    [values  |-> sc,
     indices |-> [i \in DOMAIN sc |-> [j \in DOMAIN sc[i] |-> j]]]

filter_by_top_k(sc, k, mtk, t) == torch_topk(sc, safe_size(k, mtk, Width(sc)), t)

\* line 135: the pool that is filtered; with indices given, every row is
\* gathered through indices[0], the top-k indices of the first sequence
scores_to_filter(sc, indices) ==
    IF indices.some THEN index_select(sc, indices.m[0]) ELSE sc

\* line 138: per sequence, the number of sorted entries whose cumulative
\* probability is <= top_p, passed through safe_size
\* variant of n_to_keep: the count of the first sequence is used for all
n_to_keep_first_row(sorted_scores, p, mtk, V) ==
    [i \in DOMAIN sorted_scores |->
        safe_size(Cardinality({j \in DOMAIN sorted_scores[0] :
                                   CumProbLe(sorted_scores[0], j, p)}), mtk, V)]
n_to_keep(sorted_scores, p, mtk, V) ==
    [i \in DOMAIN sorted_scores |->
        safe_size(Cardinality({j \in DOMAIN sorted_scores[i] :
                                   CumProbLe(sorted_scores[i], j, p)}), mtk, V)]

\* lines 139-147: the slice 0:max(n_to_keep) of a sorted matrix (a slice stops at
\* the end of the row), and the -inf written at and after n_to_keep[i]
KeptWidth(m, n) == Min(SetMax({n[i] : i \in DOMAIN n}), Width(m))
slice_to_max(m, n) == [i \in DOMAIN m |-> [j \in Range0(KeptWidth(m, n)) |-> m[i][j]]]
\* variant of mask_beyond: the mask starts one position early
mask_beyond_early(m, n) ==
    [i \in DOMAIN m |-> [j \in DOMAIN m[i] |-> IF j >= n[i] - 1 THEN NegInf ELSE m[i][j]]]
mask_beyond(m, n) ==
    [i \in DOMAIN m |-> [j \in DOMAIN m[i] |-> IF j >= n[i] THEN NegInf ELSE m[i][j]]]

\* lines 149-151: positions in the top-k pool mapped back to vocabulary
\* indices; the positions are those of the first sequence, indices_to_keep[0]
\* variant of map_to_original: the positions are returned as they are
map_to_original_unmapped(indices, indices_to_keep) == indices_to_keep
map_to_original(indices, indices_to_keep) ==
    IF indices.some THEN index_select(indices.m, indices_to_keep[0])
    ELSE indices_to_keep

filter_by_top_p(sc, indices, p, mtk, t) ==
    LET sorted == torch_sort(scores_to_filter(sc, indices), t)
        n      == n_to_keep(sorted.values, p, mtk, Width(sc))
    IN  [values  |-> mask_beyond(slice_to_max(sorted.values, n), n),
         indices |-> map_to_original(indices, slice_to_max(sorted.indices, n))]

NoIndices == [some |-> FALSE, m |-> <<>>]
Indices(m) == [some |-> TRUE, m |-> m]

\* the body after the validation, lines 155-168; min_tokens_to_keep = None
\* reaches the comparison None > input_size, a TypeError
filtering_body(sc, k, p, m, t) ==
    IF IsNone(k) /\ IsNone(p)
    THEN [err |-> "none", res |-> input_value_and_indices(sc)]
    ELSE IF IsNone(m)
    THEN [err |-> "TypeError", res |-> <<>>]
    ELSE IF m.num > Width(sc)
    THEN [err |-> "none", res |-> input_value_and_indices(sc)]
    ELSE IF ~IsNone(k) /\ IsNone(p)
    THEN [err |-> "none", res |-> filter_by_top_k(sc, k.num, m.num, t)]
    ELSE IF IsNone(k) /\ ~IsNone(p)
    THEN [err |-> "none", res |-> filter_by_top_p(sc, NoIndices, p, m.num, t)]
    ELSE [err |-> "none",
          res |-> filter_by_top_p(sc, Indices(filter_by_top_k(sc, k.num, m.num, t).indices),
                                  p, m.num, t)]

top_k_top_p_filtering(sc, k, p, m, t) ==
    IF validate_top_k_top_p_min_tokens_to_keep(k, p, m) # "ok"
    THEN [err |-> "ValueError", res |-> <<>>]
    ELSE filtering_body(sc, k, p, m, t)

(***************************************************************************)
(* Inputs.                                                                 *)
(***************************************************************************)
Batches == 1 .. MaxBatch
ScoreRows == [Range0(VocabSize) -> 0 .. MaxScore]

\* the rows a batch pairs with row r: r itself, r reversed, r with high and
\* low scores exchanged, r rotated by one, and every row of extreme scores
Reversed(r) == [v \in DOMAIN r |-> r[VocabSize - 1 - v]]
Exchanged(r) == [v \in DOMAIN r |-> MaxScore - r[v]]
Rotated(r) == [v \in DOMAIN r |-> r[(v + 1) % VocabSize]]
TwoLevelRows == [Range0(VocabSize) -> {0, MaxScore}]
Companions(r) == {r, Reversed(r), Exchanged(r), Rotated(r)} \cup TwoLevelRows

\* a batch of B rows: the first sequence has row r0, every other one row r1
ScoreMatrix(B, r0, r1) == [i \in Range0(B) |-> IF i = 0 THEN r0 ELSE r1]
ScoreMatrices ==
    UNION {{ScoreMatrix(B, r0, r1) : B \in Batches, r1 \in Companions(r0)} : r0 \in ScoreRows}

Ties == {"low", "high"}

ValidateTopK ==
    {PyNone, PyStr, PyBool(TRUE), PyFloat(2, 1), PyInt(DefaultTopK)}
        \cup {PyInt(n) : n \in -1 .. 2}
ValidateTopP ==
    {PyNone, PyStr, PyBool(TRUE), PyInt(0), PyInt(1), PyFloat(0, 1), PyFloat(1, 2),
     PyFloat(19, 20), PyFloat(1, 1), PyFloat(3, 2), PyFloat(-1, 2)}
ValidateMinTokens ==
    {PyNone, PyStr, PyBool(FALSE), PyFloat(1, 1)} \cup {PyInt(n) : n \in -1 .. 2}

FilterTopK == {PyNone, PyInt(0)} \cup {PyInt(n) : n \in 1 .. VocabSize}
FilterTopP == {PyNone, PyFloat(1, 4), PyFloat(1, 2), PyFloat(3, 4), PyFloat(1, 1)}
FilterMinTokens == {PyNone, PyInt(VocabSize + 1)} \cup {PyInt(n) : n \in 0 .. 2}

(***************************************************************************)
(* The parts of the state a specification does not use.                    *)
(***************************************************************************)
NoLoopState ==
    /\ input_ids = <<>> /\ sequence_length = 0 /\ eos_token_id = DefaultEos
    /\ temperature = PyFloat(1, 1)
    /\ next_token_scores = <<>> /\ tokens = <<>> /\ done_flags = <<>>
    /\ inputs = <<>> /\ cur_len = 0 /\ calls = <<>> /\ result = <<>>

LoopStateUnchanged ==
    UNCHANGED <<input_ids, sequence_length, eos_token_id, temperature, next_token_scores,
                tokens, done_flags, inputs, cur_len, calls, result>>

(***************************************************************************)
(* A direct call of validate_top_k_top_p_min_tokens_to_keep.               *)
(***************************************************************************)
InitValidate ==
    /\ fn = "validate_top_k_top_p_min_tokens_to_keep"
    /\ pc = "start" /\ err = "none" /\ tie = "low"
    /\ top_k \in ValidateTopK
    /\ top_p \in ValidateTopP
    /\ min_tokens_to_keep \in ValidateMinTokens
    /\ scores = <<>> /\ out = <<>>
    /\ NoLoopState

call_validate ==
    /\ fn = "validate_top_k_top_p_min_tokens_to_keep"
    /\ pc = "start"
    /\ LET v == validate_top_k_top_p_min_tokens_to_keep(top_k, top_p, min_tokens_to_keep)
       IN  /\ pc' = IF v = "ok" THEN "done" ELSE "error"
           /\ err' = IF v = "ok" THEN "none" ELSE v
    /\ UNCHANGED <<fn, tie, top_k, top_p, min_tokens_to_keep, scores, out>>
    /\ LoopStateUnchanged

NextValidate == call_validate

SpecValidate == InitValidate /\ [][NextValidate]_vars

(***************************************************************************)
(* A direct call of top_k_top_p_filtering.                                 *)
(***************************************************************************)
InitFilter ==
    /\ fn = "top_k_top_p_filtering"
    /\ pc = "start" /\ err = "none"
    /\ tie \in Ties
    /\ top_k \in FilterTopK
    /\ top_p \in FilterTopP
    /\ min_tokens_to_keep \in FilterMinTokens
    /\ scores \in ScoreMatrices
    /\ out = <<>>
    /\ NoLoopState

call_top_k_top_p_filtering ==
    /\ fn = "top_k_top_p_filtering"
    /\ pc = "start"
    /\ \E r \in {top_k_top_p_filtering(scores, top_k, top_p, min_tokens_to_keep, tie)} :
           /\ pc' = IF r.err = "none" THEN "done" ELSE "error"
           /\ err' = r.err
           /\ out' = r.res
    /\ UNCHANGED <<fn, tie, top_k, top_p, min_tokens_to_keep, scores>>
    /\ LoopStateUnchanged

NextFilter == call_top_k_top_p_filtering

SpecFilter == InitFilter /\ [][NextFilter]_vars

(***************************************************************************)
(* The model adapter.  What a forward call returns is chosen by the model, *)
(* not by this code: scores are drawn from two batches of ramp-shaped      *)
(* rows and one whose rows are -inf except at token 2, tokens              *)
(* (sample_tokens) from two matrices; a call may also raise.               *)
(***************************************************************************)
RampUp == [v \in Range0(VocabSize) |-> Min(v, MaxScore)]
RampDown == [v \in Range0(VocabSize) |-> Min(VocabSize - 1 - v, MaxScore)]
Spike == [v \in Range0(VocabSize) |-> IF v = DefaultEos THEN MaxScore ELSE NegInf]
ModelScores(B) ==
    {[i \in Range0(B) |-> IF i % 2 = 0 THEN RampUp ELSE RampDown],
     [i \in Range0(B) |-> IF i % 2 = 0 THEN RampDown ELSE RampUp],
     [i \in Range0(B) |-> Spike]}
ModelTokens(B, L) ==
    {[j \in 1 .. L |-> [i \in Range0(B) |-> (i + j + c) % VocabSize]] : c \in {0, 1}}

Prompt(B, L0) == [j \in 1 .. L0 |-> [i \in Range0(B) |-> (i + j) % VocabSize]]

LoopFns == {"simple_sample", "sample_tokens", "sample_greedy", "sample_llama"}
\* the largest sequence_length tried: one more for the flag-tracked loop, where
\* a sequence can be done while the loop goes on for two more steps
MaxLength(f) == IF f = "sample_llama" THEN MaxSeqLen ELSE MaxSeqLen - 1
EosIds == {1, DefaultEos}
SimpleTopK == {PyInt(1), PyInt(VocabSize), PyInt(DefaultTopK)}
LlamaTopK == {PyInt(0), PyInt(1), PyInt(2)}
LlamaTopP == {PyNone, PyFloat(1, 2), PyInt(1)}
LlamaTemperature == {PyFloat(1, 1), PyFloat(1, 2), PyFloat(0, 1), PyInt(1)}

(***************************************************************************)
(* Pieces of the loops.                                                    *)
(***************************************************************************)
BatchIdx == DOMAIN input_ids[1]
start == Len(input_ids)

\* torch.arange(n) and torch.as_tensor([n])
arange(n) == [j \in 1 .. n |-> j - 1]
as_tensor(n) == <<n>>

\* one forward call: the tokens submitted and their cache positions
Call(toks, cache_ids) == [tokens |-> toks, cache_ids |-> cache_ids]

\* cache_ids of a decode call of the iteration at cur_len
\* variant of decode_cache_ids: the position after the new token
decode_cache_ids_next_len(cl) == as_tensor(cl + 1)
decode_cache_ids(cl) == as_tensor(cl)

\* torch.cat(tokens, dim=-1) on the list of blocks
RECURSIVE cat(_)
cat(blocks) == IF blocks = <<>> THEN <<>> ELSE Head(blocks) \o cat(Tail(blocks))

\* next_token_scores[:, eos_token_id] = -inf
\* variant of mask_eos: the scores are left as they are
mask_eos_skipped(sc, eos) == sc
mask_eos(sc, eos) ==
    [i \in DOMAIN sc |-> [v \in DOMAIN sc[i] |-> IF v = eos THEN NegInf ELSE sc[i][v]]]

\* next_token_scores /= temperature, only if temperature != 1.0
scale(sc, t) ==
    IF t.num = t.den THEN sc
    ELSE [i \in DOMAIN sc |->
             [v \in DOMAIN sc[i] |->
                 IF sc[i][v] = NegInf THEN NegInf ELSE (sc[i][v] * t.den) \div t.num]]

\* torch.multinomial(softmax(values), 1): per sequence, any position of
\* non-zero probability can be drawn
\* variant of Draws: positions of zero probability can be drawn too
DrawsAnyPosition(values) == [DOMAIN values -> Range0(Width(values))]
Draws(values) ==
    {pos \in [DOMAIN values -> Range0(Width(values))] :
        \A i \in DOMAIN values : Exp(values[i][pos[i]]) > 0}
Drawable(values) == \A i \in DOMAIN values : TotalWeight(values[i]) > 0

\* torch.gather(indices, 1, pos)
gather(indices, pos) == [i \in DOMAIN indices |-> indices[i][pos[i]]]

\* torch.argmax(scores, dim=1): the first index of the largest score
\* variant of argmax: the first index of the smallest score
argmax_smallest(sc) ==
    [i \in DOMAIN sc |->
        CHOOSE a \in DOMAIN sc[i] :
            \A b \in DOMAIN sc[i] : sc[i][a] < sc[i][b] \/ (sc[i][a] = sc[i][b] /\ a <= b)]
argmax(sc) ==
    [i \in DOMAIN sc |->
        CHOOSE a \in DOMAIN sc[i] :
            \A b \in DOMAIN sc[i] : sc[i][a] > sc[i][b] \/ (sc[i][a] = sc[i][b] /\ a <= b)]

\* next_tokens[..., -1:]
last_column(m) == <<m[Len(m)]>>

\* torch.logical_or(done_flags, inputs == eos_token_id)
update_done_flags(done, inp, eos) == [i \in DOMAIN done |-> done[i] \/ inp[i] = eos]

\* torch.where(done_flags == True, eos_token_id, inputs)
\* variant of where_done: the drawn tokens are appended as they are
where_done_raw(done, eos, inp) == inp
where_done(done, eos, inp) == [i \in DOMAIN done |-> IF done[i] THEN eos ELSE inp[i]]

\* torch.all(done_flags == True)
all_done(done) == \A i \in DOMAIN done : done[i]

\* the break test of sample_loop_llama, line 204
\* variant of llama_break: the done flags are not looked at
llama_break_length_only(next_len, seqlen, done) == next_len >= seqlen
\* variant of llama_break: the length test is one iteration late
llama_break_late(next_len, seqlen, done) == next_len > seqlen \/ all_done(done)
llama_break(next_len, seqlen, done) == next_len >= seqlen \/ all_done(done)

\* the break test of sample_loop, line 95
\* variant of loop_break: one iteration late
loop_break_late(next_len, seqlen) == next_len > seqlen
loop_break(next_len, seqlen) == next_len >= seqlen

FilterUnchanged == UNCHANGED <<scores, out, min_tokens_to_keep>>
ParamsUnchanged ==
    UNCHANGED <<fn, tie, input_ids, sequence_length, eos_token_id, top_k, top_p, temperature>>

\* the locals of a call that ends before its loop
CallEnded == UNCHANGED <<tokens, done_flags, inputs, cur_len, result, next_token_scores>>

\* the call ends with exception e
Raise(e) ==
    /\ pc' = "error" /\ err' = e
    /\ CallEnded

\* model(...) raises: no forward call is inside a try, so the exception ends
\* the generation call
\* variant of forward_raises: the call goes on to its return
forward_raises_ignored == pc' = "done" /\ err' = "ModelError"
forward_raises == pc' = "error" /\ err' = "ModelError"

\* the call returns torch.cat(toks)
Return(toks) ==
    /\ pc' = "done" /\ err' = "none"
    /\ tokens' = toks
    /\ result' = cat(toks)

(***************************************************************************)
(* sample_llama and sample_loop_llama.                                     *)
(***************************************************************************)
\* lines 214-223 and 171-183: validation, prefill, validation and temperature
\* check of the loop function, up to the head of the loop
sample_llama_call ==
    /\ fn = "sample_llama" /\ pc = "start"
    /\ ParamsUnchanged /\ FilterUnchanged
    /\ IF validate_top_k_top_p_min_tokens_to_keep(top_k, top_p, PyNone) # "ok"
       THEN /\ Raise("ValueError")
            /\ calls' = calls
       ELSE /\ calls' = Append(calls, Call(input_ids, arange(start)))
            /\ \/ forward_raises /\ CallEnded
               \/ \E sc \in ModelScores(Cardinality(BatchIdx)) :
                     IF \/ validate_top_k_top_p_min_tokens_to_keep(top_k, top_p, PyNone) # "ok"
                        \/ TemperatureCheck(temperature)
                     THEN /\ pc' = "error" /\ err' = "ValueError"
                          /\ next_token_scores' = sc
                          /\ UNCHANGED <<tokens, done_flags, inputs, cur_len, result>>
                     ELSE /\ next_token_scores' = sc
                          /\ done_flags' = [i \in BatchIdx |-> FALSE]
                          /\ cur_len' = start
                          /\ inputs' = inputs
                          /\ IF start < sequence_length
                             THEN /\ pc' = "loop" /\ err' = "none"
                                  /\ tokens' = <<input_ids>>
                                  /\ result' = result
                             ELSE Return(<<input_ids>>)

\* lines 191-209 of one iteration, top being what the filter returned, and the
\* return that follows a break
sample_loop_llama_step(top) ==
    LET next_len == cur_len + 1
    IN  IF top.err # "none" \/ ~Drawable(top.res.values)
        THEN /\ Raise(IF top.err # "none" THEN top.err ELSE "RuntimeError")
             /\ calls' = calls
        ELSE \E pos \in Draws(top.res.values) :
               LET inp == gather(top.res.indices, pos)
                   done == update_done_flags(done_flags, inp, eos_token_id)
                   toks == Append(tokens, <<where_done(done, eos_token_id, inp)>>)
               IN  /\ inputs' = inp
                   /\ done_flags' = done
                   /\ IF llama_break(next_len, sequence_length, done)
                      THEN /\ Return(toks)
                           /\ UNCHANGED <<calls, next_token_scores, cur_len>>
                      ELSE /\ calls' = Append(calls, Call(<<inp>>, decode_cache_ids(cur_len)))
                           /\ tokens' = toks
                           /\ result' = result
                           /\ \/ /\ forward_raises
                                 /\ UNCHANGED <<next_token_scores, cur_len>>
                              \/ /\ pc' = "loop" /\ err' = "none"
                                 /\ next_token_scores' \in ModelScores(Cardinality(BatchIdx))
                                 /\ cur_len' = next_len

\* one iteration of the loop of sample_loop_llama, lines 183-209
sample_loop_llama_iter ==
    /\ fn = "sample_llama" /\ pc = "loop"
    /\ ParamsUnchanged /\ FilterUnchanged
    /\ \E top \in {top_k_top_p_filtering(scale(next_token_scores, temperature),
                                         top_k, top_p, PyInt(1), tie)} :
          sample_loop_llama_step(top)

(***************************************************************************)
(* simple_sample and sample_loop.                                          *)
(***************************************************************************)
\* lines 19-25 and 78-80
simple_sample_call ==
    /\ fn = "simple_sample" /\ pc = "start"
    /\ ParamsUnchanged /\ FilterUnchanged
    /\ calls' = Append(calls, Call(input_ids, arange(start)))
    /\ \/ forward_raises /\ CallEnded
       \/ /\ next_token_scores' \in ModelScores(Cardinality(BatchIdx))
          /\ cur_len' = start
          /\ UNCHANGED <<done_flags, inputs>>
          /\ IF start < sequence_length
             THEN /\ pc' = "loop" /\ err' = "none"
                  /\ tokens' = <<input_ids>>
                  /\ result' = result
             ELSE Return(<<input_ids>>)

\* one iteration of the loop of sample_loop, lines 80-100; torch.topk raises
\* when top_k exceeds the vocabulary size
sample_loop_iter ==
    /\ fn = "simple_sample" /\ pc = "loop"
    /\ ParamsUnchanged /\ FilterUnchanged
    /\ UNCHANGED done_flags
    /\ LET next_len == cur_len + 1
           masked == mask_eos(next_token_scores, eos_token_id)
       IN  IF eos_token_id \notin Range0(VocabSize)
           THEN Raise("IndexError") /\ calls' = calls /\ inputs' = inputs
           ELSE IF top_k.num > VocabSize
           THEN /\ pc' = "error" /\ err' = "RuntimeError"
                /\ next_token_scores' = masked
                /\ UNCHANGED <<tokens, inputs, cur_len, result, calls>>
           ELSE \E top \in {torch_topk(masked, top_k.num, tie)} :
                    IF ~Drawable(top.values)
                    THEN /\ pc' = "error" /\ err' = "RuntimeError"
                         /\ next_token_scores' = masked
                         /\ UNCHANGED <<tokens, inputs, cur_len, result, calls>>
                    ELSE \E pos \in Draws(top.values) :
                           LET inp == gather(top.indices, pos)
                               toks == Append(tokens, <<inp>>)
                           IN  /\ inputs' = inp
                               /\ IF loop_break(next_len, sequence_length)
                                  THEN /\ Return(toks)
                                       /\ next_token_scores' = masked
                                       /\ UNCHANGED <<calls, cur_len>>
                                  ELSE /\ calls' = Append(calls,
                                                      Call(<<inp>>, decode_cache_ids(cur_len)))
                                       /\ tokens' = toks
                                       /\ result' = result
                                       /\ \/ /\ forward_raises
                                             /\ next_token_scores' = masked
                                             /\ cur_len' = cur_len
                                          \/ /\ pc' = "loop" /\ err' = "none"
                                             /\ next_token_scores'
                                                   \in ModelScores(Cardinality(BatchIdx))
                                             /\ cur_len' = next_len

(***************************************************************************)
(* sample_tokens and sample_greedy: no break, the forward call follows     *)
(* every append, the last one included.                                    *)
(***************************************************************************)
\* after the forward call of the iteration at cur_len returned: the next
\* iteration, or the return when the range is exhausted
NextIteration(toks) ==
    IF cur_len + 1 < sequence_length
    THEN /\ pc' = "loop" /\ err' = "none"
         /\ cur_len' = cur_len + 1
         /\ tokens' = toks
         /\ result' = result
    ELSE /\ Return(toks)
         /\ cur_len' = cur_len

\* lines 35-40
sample_tokens_call ==
    /\ fn = "sample_tokens" /\ pc = "start"
    /\ ParamsUnchanged /\ FilterUnchanged
    /\ calls' = Append(calls, Call(input_ids, arange(start)))
    /\ \/ forward_raises /\ CallEnded
       \/ /\ next_token_scores' \in ModelTokens(Cardinality(BatchIdx), start)
          /\ cur_len' = start
          /\ UNCHANGED <<done_flags, inputs>>
          /\ IF start < sequence_length
             THEN /\ pc' = "loop" /\ err' = "none"
                  /\ tokens' = <<input_ids>>
                  /\ result' = result
             ELSE Return(<<input_ids>>)

\* lines 40-49
sample_tokens_iter ==
    /\ fn = "sample_tokens" /\ pc = "loop"
    /\ ParamsUnchanged /\ FilterUnchanged
    /\ UNCHANGED done_flags
    /\ LET next_tokens == last_column(next_token_scores)
           toks == Append(tokens, next_tokens)
       IN  /\ inputs' = next_tokens[1]
           /\ calls' = Append(calls, Call(next_tokens, decode_cache_ids(cur_len)))
           /\ \/ /\ forward_raises
                 /\ tokens' = toks
                 /\ UNCHANGED <<next_token_scores, cur_len, result>>
              \/ /\ next_token_scores' \in ModelTokens(Cardinality(BatchIdx), 1)
                 /\ NextIteration(toks)

\* lines 58-63
sample_greedy_call ==
    /\ fn = "sample_greedy" /\ pc = "start"
    /\ ParamsUnchanged /\ FilterUnchanged
    /\ calls' = Append(calls, Call(input_ids, arange(start)))
    /\ \/ forward_raises /\ CallEnded
       \/ /\ next_token_scores' \in ModelScores(Cardinality(BatchIdx))
          /\ cur_len' = start
          /\ UNCHANGED <<done_flags, inputs>>
          /\ IF start < sequence_length
             THEN /\ pc' = "loop" /\ err' = "none"
                  /\ tokens' = <<input_ids>>
                  /\ result' = result
             ELSE Return(<<input_ids>>)

\* lines 63-73
sample_greedy_iter ==
    /\ fn = "sample_greedy" /\ pc = "loop"
    /\ ParamsUnchanged /\ FilterUnchanged
    /\ UNCHANGED done_flags
    /\ LET inp == argmax(next_token_scores)
           toks == Append(tokens, <<inp>>)
       IN  /\ inputs' = inp
           /\ calls' = Append(calls, Call(<<inp>>, decode_cache_ids(cur_len)))
           /\ \/ /\ forward_raises
                 /\ tokens' = toks
                 /\ UNCHANGED <<next_token_scores, cur_len, result>>
              \/ /\ next_token_scores' \in ModelScores(Cardinality(BatchIdx))
                 /\ NextIteration(toks)

(***************************************************************************)
(* One generation call.                                                    *)
(***************************************************************************)
Init ==
    /\ fn \in LoopFns
    /\ pc = "start" /\ err = "none"
    /\ \E B \in Batches, L0 \in 1 .. MaxPrompt : input_ids = Prompt(B, L0)
    /\ sequence_length \in 1 .. MaxLength(fn)
    /\ IF fn = "sample_llama"
       THEN /\ tie \in Ties /\ eos_token_id \in EosIds
            /\ top_k \in LlamaTopK /\ top_p \in LlamaTopP
            /\ temperature \in LlamaTemperature
       ELSE IF fn = "simple_sample"
       THEN /\ tie \in Ties /\ eos_token_id \in EosIds
            /\ top_k \in SimpleTopK /\ top_p = PyNone
            /\ temperature = PyFloat(1, 1)
       ELSE /\ tie = "low" /\ eos_token_id = DefaultEos
            /\ top_k = PyNone /\ top_p = PyNone
            /\ temperature = PyFloat(1, 1)
    /\ min_tokens_to_keep = PyInt(1)
    /\ next_token_scores = <<>> /\ tokens = <<>> /\ done_flags = <<>>
    /\ inputs = <<>> /\ cur_len = 0 /\ calls = <<>> /\ result = <<>>
    /\ scores = <<>> /\ out = <<>>

Next ==
    \/ simple_sample_call
    \/ sample_loop_iter
    \/ sample_tokens_call
    \/ sample_tokens_iter
    \/ sample_greedy_call
    \/ sample_greedy_iter
    \/ sample_llama_call
    \/ sample_loop_llama_iter

Spec == Init /\ [][Next]_vars

(***************************************************************************)
(* Properties of the generation loops.                                     *)
(***************************************************************************)
Generated == Len(tokens) - 1                  \* columns appended so far
Column(n) == tokens[n + 1][1]                 \* the n-th appended column, n >= 1
LastColumn(toks) == toks[Len(toks)][1]
InLlamaLoop == fn = "sample_llama" /\ pc = "loop"

\* C1: in the flag-tracked loop a done flag that is true stays true, and the
\* token appended for a sequence whose flag is true after the draw is
\* eos_token_id, whatever was drawn.
C1_DoneSticky ==
    [][InLlamaLoop =>
          \A i \in BatchIdx :
              /\ done_flags[i] => done_flags'[i]
              /\ (Len(tokens') = Len(tokens) + 1 /\ done_flags'[i])
                     => LastColumn(tokens')[i] = eos_token_id]_vars

\* a sequence that was done before the last step drew something else than
\* EOS at that step and got EOS appended, while another sequence is not done
C1_Witness ==
    /\ fn = "sample_llama" /\ pc \in {"loop", "done"} /\ Generated >= 2
    /\ \E i \in BatchIdx :
          /\ Column(Generated - 1)[i] = eos_token_id
          /\ done_flags[i]
          /\ inputs[i] # eos_token_id
          /\ Column(Generated)[i] = eos_token_id
    /\ \E i \in BatchIdx : ~done_flags[i]

\* C2: after the column for position cur_len is appended, the flag-tracked
\* loop stops exactly when cur_len + 1 = sequence_length or every done flag
\* is true; a stop issues no forward call and, before the last position,
\* returns fewer than sequence_length columns; otherwise one forward call
\* is issued.
C2_StopIff ==
    [][(InLlamaLoop /\ Len(tokens') = Len(tokens) + 1) =>
          LET stop == cur_len + 1 = sequence_length \/ (\A i \in BatchIdx : done_flags'[i])
          IN  /\ (pc' = "done") <=> stop
              /\ stop => /\ calls' = calls
                         /\ Len(result') = cur_len + 1
                         /\ cur_len + 1 < sequence_length => Len(result') < sequence_length
              /\ ~stop => /\ Len(calls') = Len(calls) + 1
                          /\ pc' \in {"loop", "error"}
                          /\ Len(tokens') - 1 + start < sequence_length]_vars

\* a batch of two stopped early: all done, fewer than sequence_length columns
C2_Witness ==
    /\ fn = "sample_llama" /\ pc = "done"
    /\ Cardinality(BatchIdx) = 2
    /\ \A i \in BatchIdx : done_flags[i]
    /\ Generated >= 1
    /\ Len(result) < sequence_length

\* C3: the legacy top-k loop never appends eos_token_id, and with a prompt
\* shorter than sequence_length it returns exactly sequence_length columns.
C3_NeverEos ==
    fn = "simple_sample" =>
        /\ \A n \in 1 .. Generated : \A i \in BatchIdx : Column(n)[i] # eos_token_id
        /\ (pc = "done" /\ start < sequence_length) =>
              /\ Len(result) = sequence_length
              /\ \A n \in start + 1 .. Len(result) :
                    \A i \in BatchIdx : result[n][i] # eos_token_id

\* two generated columns for a batch of two, with top_k = V, so that the
\* masked EOS entry is among the top-k candidates of every step
C3_Witness ==
    /\ fn = "simple_sample" /\ pc = "done"
    /\ Cardinality(BatchIdx) = 2
    /\ top_k.num = VocabSize
    /\ Generated >= 2
    /\ Len(result) = sequence_length

PromptKept == \A n \in 1 .. start : n <= Len(result) /\ result[n] = input_ids[n]

\* C4, as stated: for every prompt length and every sequence_length the
\* returned matrix has exactly sequence_length columns (sample_llama: at
\* most, fewer only on the batch-wide early stop) and starts with the prompt.
C4_AsStated ==
    (fn \in LoopFns /\ pc = "done") =>
        /\ fn # "sample_llama" => Len(result) = sequence_length
        /\ fn = "sample_llama" =>
              /\ Len(result) <= sequence_length
              /\ Len(result) < sequence_length => all_done(done_flags)
        /\ PromptKept

\* C4, amended: with a prompt of at most sequence_length columns the returned
\* matrix has exactly sequence_length columns (sample_llama: at most, fewer
\* only on the batch-wide early stop); with a longer prompt it is the prompt,
\* L0 columns; its first L0 columns are always the prompt.
C4_Columns ==
    (fn \in LoopFns /\ pc = "done") =>
        /\ start > sequence_length => result = input_ids
        /\ (start <= sequence_length /\ fn # "sample_llama") => Len(result) = sequence_length
        /\ (start <= sequence_length /\ fn = "sample_llama") =>
              /\ Len(result) <= sequence_length
              /\ Len(result) < sequence_length =>
                    (all_done(done_flags) /\ Len(result) > start)
        /\ PromptKept
        /\ \A n \in 1 .. Len(result) : DOMAIN result[n] = BatchIdx

\* a prompt longer than sequence_length is returned as it is
C4_Witness ==
    /\ fn \in LoopFns /\ pc = "done"
    /\ start > sequence_length
    /\ result = input_ids /\ Len(result) = start

\* C5: a call of sample_llama that fails with the parameter error has issued
\* no forward call.
C5_NoCallBeforeValidation ==
    (fn = "sample_llama" /\ pc = "error" /\ err = "ValueError") => calls = <<>>

\* C7: the first forward call submits the whole prompt at positions
\* 0 .. L0-1; the n-th call after it submits one token per sequence at the
\* single position L0 + n - 1; a call that entered the loop or returned has
\* issued the prefill.
C7_CachePositions ==
    fn \in LoopFns =>
        /\ calls # <<>> =>
              /\ calls[1].tokens = input_ids
              /\ calls[1].cache_ids = [j \in 1 .. start |-> j - 1]
        /\ \A n \in 2 .. Len(calls) :
              /\ calls[n].cache_ids = <<start + n - 2>>
              /\ start + n - 2 < sequence_length
              /\ Len(calls[n].tokens) = 1
              /\ DOMAIN calls[n].tokens[1] = BatchIdx
        /\ pc \in {"loop", "done"} => Len(calls) >= 1

\* a returned call with a prefill and two decode calls
C7_Witness ==
    /\ fn \in LoopFns /\ pc = "done"
    /\ Len(calls) >= 3
    /\ calls[3].cache_ids = <<start + 1>>

(***************************************************************************)
(* Properties of the validator.                                            *)
(***************************************************************************)
ValidateReturned == fn = "validate_top_k_top_p_min_tokens_to_keep" /\ pc # "start"

IsInteger(v) == v.ty \in {"int", "bool"}
IsFloat(v) == v.ty = "float"
IsRealNumber(v) == v.ty \in {"int", "float"}

LegalTopK(v) == IsInteger(v) /\ v.num >= 1
LegalTopP(v) == IsFloat(v) /\ 0 < v.num /\ v.num <= v.den
LegalTopPAsReal(v) == IsRealNumber(v) /\ 0 < v.num /\ v.num <= v.den
LegalMinTokens(v) == IsInteger(v) /\ v.num >= 0

\* C6, as stated: validate succeeds exactly when every provided parameter is
\* legal, top_p being legal when it is a real number in (0.0, 1.0] (an int or
\* a float), and fails with the parameter error otherwise.
C6_AsStated ==
    ValidateReturned =>
        /\ (pc = "done") <=>
              /\ IsNone(top_k) \/ LegalTopK(top_k)
              /\ IsNone(top_p) \/ LegalTopPAsReal(top_p)
              /\ IsNone(min_tokens_to_keep) \/ LegalMinTokens(min_tokens_to_keep)
        /\ (pc # "done") => (pc = "error" /\ err = "ValueError")

\* C6, amended: validate succeeds exactly when every provided parameter is
\* legal, where top_k is legal when it is an int > 0, top_p when it is a
\* float in (0.0, 1.0] (the int 1 is rejected), min_tokens_to_keep when it is
\* an int >= 0; it fails with ValueError otherwise.
C6_Validate ==
    ValidateReturned =>
        /\ (pc = "done") <=>
              /\ IsNone(top_k) \/ LegalTopK(top_k)
              /\ IsNone(top_p) \/ LegalTopP(top_p)
              /\ IsNone(min_tokens_to_keep) \/ LegalMinTokens(min_tokens_to_keep)
        /\ (pc = "done") => err = "none"
        /\ (pc # "done") => (pc = "error" /\ err = "ValueError")

\* an integer top_p = 1 with legal top_k = 50 and min_tokens_to_keep = 1 is rejected
C6_Witness ==
    /\ ValidateReturned /\ pc = "error" /\ err = "ValueError"
    /\ top_k = PyInt(DefaultTopK) /\ top_p = PyInt(1) /\ min_tokens_to_keep = PyInt(1)

(***************************************************************************)
(* Properties of the filtering engine.                                     *)
(***************************************************************************)
FilterReturned == fn = "top_k_top_p_filtering" /\ pc = "done"

Clamp(x, lo, hi) == IF x < lo THEN lo ELSE IF x > hi THEN hi ELSE x

\* vocabulary indices returned for sequence i, and those that are not masked
ReturnedIndices(r, i) == {r.indices[i][j] : j \in DOMAIN r.indices[i]}
KeptPositions(r, i) == {j \in DOMAIN r.values[i] : r.values[i][j] # NegInf}
KeptIndices(r, i) == {r.indices[i][j] : j \in KeptPositions(r, i)}

TopKOnly ==
    /\ ~IsNone(top_k) /\ IsNone(top_p)
    /\ ~IsNone(min_tokens_to_keep) /\ min_tokens_to_keep.num <= VocabSize

\* C8: with only top_k set and min_tokens_to_keep <= V, every sequence gets
\* exactly clamp(top_k, min_tokens_to_keep, V) entries: the highest scores of
\* its own row, in descending order, each with its own vocabulary index.
C8_TopKShape ==
    (FilterReturned /\ TopKOnly) =>
        \A i \in DOMAIN scores :
            LET n == Clamp(top_k.num, min_tokens_to_keep.num, VocabSize)
                vals == out.values[i]
                idx == out.indices[i]
            IN  /\ DOMAIN vals = Range0(n) /\ DOMAIN idx = Range0(n)
                /\ \A j \in Range0(n) :
                      /\ idx[j] \in Range0(VocabSize)
                      /\ vals[j] = scores[i][idx[j]]
                      /\ \A j2 \in Range0(n) : j < j2 => (vals[j] >= vals[j2] /\ idx[j] # idx[j2])
                /\ \A v \in Range0(VocabSize) \ ReturnedIndices(out, i) :
                      \A j \in Range0(n) : scores[i][v] <= vals[j]

\* a batch of two different rows, top_k below the floor min_tokens_to_keep
C8_Witness ==
    /\ FilterReturned /\ TopKOnly
    /\ Cardinality(DOMAIN scores) = 2 /\ scores[0] # scores[1]
    /\ top_k.num < min_tokens_to_keep.num
    /\ Width(out.values) = min_tokens_to_keep.num
    /\ Width(out.values) < VocabSize

TopPOnly ==
    /\ IsNone(top_k) /\ ~IsNone(top_p)
    /\ ~IsNone(min_tokens_to_keep) /\ min_tokens_to_keep.num <= VocabSize

\* probability mass of the entries kept for sequence i, as weight out of TotalWeight
RECURSIVE SumWeights(_, _)
SumWeights(vals, S) ==
    IF S = {} THEN 0
    ELSE LET j == CHOOSE x \in S : TRUE
         IN  Exp(vals[j]) + SumWeights(vals, S \ {j})
KeptWeight(r, i) == SumWeights(r.values[i], KeptPositions(r, i))

\* C9: with top_p set, the kept prefix extends to the first entry whose
\* cumulative probability exceeds top_p, so the probability mass of the kept
\* entries reaches top_p.
C9_ReachesTopP ==
    (FilterReturned /\ TopPOnly) =>
        \A i \in DOMAIN scores :
            KeptWeight(out, i) * top_p.den >= top_p.num * TotalWeight(scores[i])

TopKAndTopP == ~IsNone(top_k) /\ ~IsNone(top_p)

\* C10: the vocabulary indices returned for a row with top_k and top_p set
\* are among those returned for that row with the same top_k alone.
C10_Subset ==
    (FilterReturned /\ TopKAndTopP) =>
        LET alone == top_k_top_p_filtering(scores, top_k, PyNone, min_tokens_to_keep, tie)
        IN  /\ alone.err = "none"
            /\ \A i \in DOMAIN scores :
                  /\ ReturnedIndices(out, i) \subseteq ReturnedIndices(alone.res, i)
                  /\ KeptIndices(out, i) \subseteq ReturnedIndices(alone.res, i)

\* two different rows, and top_p removes something top_k alone keeps
C10_Witness ==
    /\ FilterReturned /\ TopKAndTopP
    /\ Cardinality(DOMAIN scores) = 2 /\ scores[0] # scores[1]
    /\ min_tokens_to_keep.num <= VocabSize
    /\ top_k.num = 2
    /\ \E i \in DOMAIN scores : Cardinality(KeptIndices(out, i)) = 1
    /\ ReturnedIndices(out, 1) # Range0(Width(out.values))

\* the number of entries of row, in descending order, whose cumulative
\* probability is <= p
SortedRow(row, t) == [j \in DOMAIN row |-> row[ArgSort(row, t)[j]]]
CountWithin(row, p, t) ==
    Cardinality({j \in DOMAIN row : CumProbLe(SortedRow(row, t), j, p)})

FilterModeSet == ~(IsNone(top_k) /\ IsNone(top_p))
MinTokensWithinVocab == ~IsNone(min_tokens_to_keep) /\ min_tokens_to_keep.num <= VocabSize

\* C11: in every filtering mode (top_k only, top_p only, both) and for every
\* sequence of the batch, when min_tokens_to_keep <= V at least
\* min_tokens_to_keep entries are kept, that is, not minus infinity.
C11_MinTokensFloor ==
    (FilterReturned /\ FilterModeSet /\ MinTokensWithinVocab) =>
        \A i \in DOMAIN scores :
            Cardinality(KeptPositions(out, i)) >= min_tokens_to_keep.num

\* top_p set, two sequences, no entry of a row within top_p, a floor of two
C11_Witness ==
    /\ FilterReturned /\ ~IsNone(top_p) /\ MinTokensWithinVocab
    /\ Cardinality(DOMAIN scores) = 2
    /\ min_tokens_to_keep.num = 2
    /\ \E i \in DOMAIN scores :
          /\ CountWithin(scores[i], top_p, tie) = 0
          /\ Cardinality(KeptPositions(out, i)) = 2

RowMax(row) == SetMax({row[v] : v \in DOMAIN row})
KeptCount(r, i) == Cardinality(KeptPositions(r, i))

\* some kept position of sequence i holds the highest score of row i together
\* with the vocabulary index of an entry that has that score
HighestKept(r, sc, i) ==
    \E j \in KeptPositions(r, i) :
        /\ r.values[i][j] = RowMax(sc[i])
        /\ sc[i][r.indices[i][j]] = RowMax(sc[i])

\* the kept count of every sequence does not decrease when top_p is raised,
\* top_k, min_tokens_to_keep and the scores being the same
C12_Monotone ==
    (FilterReturned /\ ~IsNone(top_p) /\ MinTokensWithinVocab) =>
        \A p2 \in FilterTopP \ {PyNone} :
            (top_p.num * p2.den <= p2.num * top_p.den) =>
                LET more == top_k_top_p_filtering(scores, top_k, p2, min_tokens_to_keep, tie)
                IN  /\ more.err = "none"
                    /\ \A i \in DOMAIN scores : KeptCount(out, i) <= KeptCount(more.res, i)

C12_HighestKept ==
    (FilterReturned /\ ~IsNone(top_p) /\ MinTokensWithinVocab
        /\ min_tokens_to_keep.num >= 1) =>
        \A i \in DOMAIN scores : HighestKept(out, scores, i)

\* C12: for a fixed row, top_k and min_tokens_to_keep the number of kept
\* entries under top-p filtering is non-decreasing in top_p, and the
\* highest-scoring entry of the row is kept for every top_p when
\* min_tokens_to_keep >= 1.
C12_AsStated == C12_Monotone /\ C12_HighestKept

\* the part of C12_HighestKept outside the combined mode on several sequences
C12_HighestKeptAlone ==
    (IsNone(top_k) \/ Cardinality(DOMAIN scores) = 1) => C12_HighestKept

(***************************************************************************)
(* Properties of the draw of sample_loop_llama.                            *)
(***************************************************************************)
\* fewer than k entries of row score higher than entry v
AmongHighest(row, v, k) == Cardinality({u \in DOMAIN row : row[u] > row[v]}) < k

\* what the filter returns for the scores of the current step
FilteredNow ==
    top_k_top_p_filtering(scale(next_token_scores, temperature), top_k, top_p, PyInt(1), tie)

FirstLargest(row, a) ==
    /\ \A b \in DOMAIN row : row[b] <= row[a]
    /\ \A b \in DOMAIN row : b < a => row[b] < row[a]

\* C14: sample_greedy is deterministic.  Every step appends, for each
\* sequence, the argmax of the scores the preceding forward call returned,
\* and submits exactly that column at cache position cur_len, so the output
\* and the sequence of (tokens, cache position) forward calls are functions
\* of the inputs and of what the model returned.
C14_GreedyFunctional ==
    [][(fn = "sample_greedy" /\ pc = "loop") =>
          /\ \A i \in BatchIdx :
                /\ FirstLargest(next_token_scores[i], inputs'[i])
                /\ \A a \in Range0(VocabSize) :
                      FirstLargest(next_token_scores[i], a) => a = inputs'[i]
          /\ Len(tokens') = Len(tokens) + 1
          /\ \A n \in 1 .. Len(tokens) : tokens'[n] = tokens[n]
          /\ LastColumn(tokens') = inputs'
          /\ calls' = Append(calls, Call(<<inputs'>>, <<cur_len>>))
          /\ pc' = "done" => result' = cat(tokens')]_vars

\* a returned call on two sequences with two generated columns, where a tie
\* of the largest score went to the first index
C14_Witness ==
    /\ fn = "sample_greedy" /\ pc = "done" /\ Generated >= 2
    /\ Cardinality(BatchIdx) = 2
    /\ inputs[0] # inputs[1]
    /\ \A n \in 1 .. Generated : calls[n + 1].tokens = <<Column(n)>>
    /\ \E n \in 1 .. Generated, i \in BatchIdx : Column(n)[i] = 1

(***************************************************************************)
(* Forward calls and generated columns.                                    *)
(***************************************************************************)
\* C15: in every variant no forward call follows the append of the column
\* for the last position, so a call that returns g >= 1 generated columns has
\* issued exactly g forward calls, one prefill and g - 1 decode calls.
C15_CallsEqualColumns ==
    (fn \in LoopFns /\ pc = "done" /\ Generated >= 1) => Len(calls) = Generated

\* the two loops that break before the forward call, lines 95 and 204
C15_WithBreak ==
    (fn \in {"simple_sample", "sample_llama"} /\ pc = "done" /\ Generated >= 1)
        => Len(calls) = Generated

\* the two loops without a break, lines 40-47 and 63-71
C15_WithoutBreak ==
    (fn \in {"sample_tokens", "sample_greedy"} /\ pc = "done" /\ Generated >= 1)
        => Len(calls) = Generated + 1

(***************************************************************************)
(* The index mapping of the filter.                                        *)
(***************************************************************************)
\* C16: in every filtering mode and for every batch size, every kept score
\* is returned with its own vocabulary index: at each position j of sequence
\* i that is not masked, kept_scores[i][j] = scores[i][kept_indices[i][j]].
C16_OwnEntries ==
    FilterReturned =>
        \A i \in DOMAIN scores :
            \A j \in KeptPositions(out, i) :
                /\ out.indices[i][j] \in Range0(VocabSize)
                /\ out.values[i][j] = scores[i][out.indices[i][j]]

\* the mapping outside the combined mode on several sequences
C16_OwnEntriesAlone ==
    (~TopKAndTopP \/ Cardinality(DOMAIN scores) = 1) => C16_OwnEntries

(***************************************************************************)
(* top_p alone on a batch.                                                 *)
(***************************************************************************)
\* n_i: the count of sequence i between min_tokens_to_keep and V
KeepCount(i) ==
    Clamp(CountWithin(scores[i], top_p, tie), min_tokens_to_keep.num, VocabSize)

\* C17: with only top_p set, sequence i has exactly n_i entries that are not
\* masked, n_i being the number of its descending-sorted entries with
\* cumulative probability <= top_p, clamped to [min_tokens_to_keep, V]; they
\* are the n_i highest-scoring entries of row i in descending order, every
\* position at or beyond n_i is minus infinity, and the width of the
\* returned matrices is the largest n_i of the batch.
C17_TopPBatch ==
    (FilterReturned /\ TopPOnly) =>
        LET width == SetMax({KeepCount(i) : i \in DOMAIN scores})
        IN  \A i \in DOMAIN scores :
                /\ DOMAIN out.values[i] = Range0(width)
                /\ DOMAIN out.indices[i] = Range0(width)
                /\ KeptPositions(out, i) = Range0(KeepCount(i))
                /\ \A j \in Range0(KeepCount(i)) :
                      /\ out.indices[i][j] \in Range0(VocabSize)
                      /\ out.values[i][j] = scores[i][out.indices[i][j]]
                      /\ \A j2 \in Range0(KeepCount(i)) :
                            j < j2 => /\ out.values[i][j] >= out.values[i][j2]
                                      /\ out.indices[i][j] # out.indices[i][j2]
                /\ \A v \in Range0(VocabSize) \ KeptIndices(out, i) :
                      \A j \in Range0(KeepCount(i)) : scores[i][v] <= out.values[i][j]

\* two sequences with different counts: the shorter one is padded with minus
\* infinity up to the width of the longer one
C17_Witness ==
    /\ FilterReturned /\ TopPOnly
    /\ Cardinality(DOMAIN scores) = 2
    /\ KeepCount(0) > KeepCount(1) /\ KeepCount(1) >= 1
    /\ KeepCount(1) > min_tokens_to_keep.num
    /\ Width(out.values) = KeepCount(0)
    /\ out.values[1][KeepCount(1)] = NegInf
    /\ out.values[0][KeepCount(1)] # NegInf

(***************************************************************************)
(* Failure of a forward call.                                              *)
(***************************************************************************)
\* C18: when a forward call fails, prefill or decode, in any variant, the
\* generation call ends with that failure: the failed call is the last one
\* issued, nothing is returned, and nothing happens afterwards, neither a
\* retry nor another forward call.
C18_FailurePropagates ==
    [][/\ err = "ModelError" => UNCHANGED vars
       /\ err' = "ModelError" =>
             /\ pc' = "error"
             /\ result' = <<>>
             /\ Len(calls') = Len(calls) + 1
             /\ \A n \in 1 .. Len(calls) : calls'[n] = calls[n]]_vars

\* the second decode call of a call on two sequences failed: two columns were
\* generated and nothing is returned
C18_Witness ==
    /\ fn \in LoopFns /\ pc = "error" /\ err = "ModelError"
    /\ Cardinality(BatchIdx) = 2
    /\ Len(calls) = 3 /\ Len(tokens) = 3
    /\ result = <<>>

(***************************************************************************)
(* Termination.  The loops run in one thread and a forward call is         *)
(* synchronous: a call that has not ended takes its next step.             *)
(***************************************************************************)
\* parameters the call accepts: those of sample_llama pass the validator and
\* the temperature check, top_k of sample_loop is within the vocabulary
ValidParams ==
    /\ fn = "sample_llama" =>
          /\ validate_top_k_top_p_min_tokens_to_keep(top_k, top_p, PyNone) = "ok"
          /\ ~TemperatureCheck(temperature)
    /\ fn = "simple_sample" => top_k.num <= VocabSize

\* the model failed: a forward call raised, or returned scores that leave
\* torch.multinomial nothing to draw
ModelFailed == err \in {"ModelError", "RuntimeError"}

Running == pc \in {"start", "loop"}

\* an upper bound of the steps a call has left
Remaining ==
    IF pc = "start" THEN Max(0, sequence_length - start) + 1
    ELSE IF pc = "loop" THEN sequence_length - cur_len
    ELSE 0

\* the call has a next step
CanStep ==
    IF InLlamaLoop
    THEN \E top \in {FilteredNow} :
            ENABLED (ParamsUnchanged /\ FilterUnchanged /\ sample_loop_llama_step(top))
    ELSE ENABLED Next

ControllerShape ==
    fn \in LoopFns =>
        /\ pc \in {"loop", "done"} => calls # <<>>
        /\ calls # <<>> => calls[1] = Call(input_ids, arange(start))
        /\ \A n \in 2 .. Len(calls) :
              Len(calls[n].tokens) = 1 /\ Len(calls[n].cache_ids) = 1
        /\ tokens # <<>> => Generated <= Max(0, sequence_length - start)
        /\ (pc = "done" /\ Generated = 0) => start >= sequence_length
        /\ (pc = "done" /\ Generated >= 1) =>
              \/ cur_len = sequence_length - 1 /\ start + Generated = sequence_length
              \/ fn = "sample_llama" /\ all_done(done_flags)

C19_Controller ==
    fn \in LoopFns =>
        /\ ControllerShape
        /\ Running => CanStep
        /\ (~Running /\ ValidParams) => (pc = "done" \/ ModelFailed)

\* C19: a generation call with valid parameters whose model does not fail
\* reaches its return: every step leaves fewer steps to take, a call that has
\* not ended has a next step, and a call that ended has returned.  The
\* prefill is the first forward call and the only one over the whole prompt,
\* at most sequence_length - L0 columns are generated, and the loop ends only
\* at cur_len = sequence_length - 1 or, in the flag-tracked variant, when
\* every done flag is true.
C19_Terminates ==
    /\ []C19_Controller
    /\ [][Remaining' < Remaining /\ Remaining' >= 0]_vars

\* a returned call with valid parameters that generated three columns
C19_Witness ==
    /\ fn \in LoopFns /\ pc = "done" /\ ValidParams
    /\ Generated = 3 /\ start + Generated = sequence_length
    /\ Cardinality(BatchIdx) = 2

(***************************************************************************)
(* The tokens the model is given.                                          *)
(***************************************************************************)
\* the decode call that follows the n-th generated column submits that column
FedBack(n) == calls[n + 1].tokens = <<Column(n)>>

\* C20: in every variant the tokens given to the model agree with the
\* output: the column submitted by each decode call is the column appended
\* at that step, so the prompt followed by the submitted tokens is a prefix
\* of every returned row, also for sequences of sample_llama that are done
\* while others are not.
C20_FedIsAppended ==
    (fn \in LoopFns /\ tokens # <<>>) =>
        /\ \A n \in 1 .. Len(calls) - 1 : n <= Generated /\ FedBack(n)
        /\ pc = "done" => result = cat(tokens)

\* the variants other than sample_llama
C20_OtherVariants == fn # "sample_llama" => C20_FedIsAppended

\* in sample_llama a submitted token differs from the appended one only for a
\* sequence that was done before the step, where EOS is appended
C20_LlamaDoneOnly ==
    (fn = "sample_llama" /\ tokens # <<>>) =>
        \A n \in 1 .. Len(calls) - 1 : \A i \in BatchIdx :
            calls[n + 1].tokens[1][i] # Column(n)[i] =>
                /\ n >= 2
                /\ Column(n)[i] = eos_token_id
                /\ Column(n - 1)[i] = eos_token_id

====
